---- MODULE Spec2Model ----
(***************************************************************************)
(* Birth Certificate Verification System (src/app.py).                     *)
(*                                                                         *)
(* Python strings are modelled as sequences of one-character strings, so   *)
(* that `in`, str.upper(), re.search and the f-string templates are        *)
(* computed character by character.  A code point outside ASCII is the     *)
(* element "U+XXXX".                                                       *)
(***************************************************************************)
EXTENDS Integers, Sequences, FiniteSets, TLC

VARIABLES pc, uploaded_file, extracted_text, document_type, serial_number,
          seal_status, pixelation_result, confidence_score, recommendation,
          subheader, markdown_text, report_text

vars ==
    <<pc, uploaded_file, extracted_text, document_type, serial_number,
      seal_status, pixelation_result, confidence_score, recommendation,
      subheader, markdown_text, report_text>>

\* ------------------------------------------------------------------------
\* Character classes
\* ------------------------------------------------------------------------
UpperLetters ==
    <<"A","B","C","D","E","F","G","H","I","J","K","L","M","N","O","P","Q","R","S","T","U","V",
      "W","X","Y","Z">>

LowerLetters ==
    <<"a","b","c","d","e","f","g","h","i","j","k","l","m","n","o","p","q","r","s","t","u","v",
      "w","x","y","z">>

DigitChars ==
    <<"0","1","2","3","4","5","6","7","8","9">>

\* ------------------------------------------------------------------------
\* String literals of src/app.py
\* ------------------------------------------------------------------------
PhraseCertificateOfBirth ==
    <<"C","E","R","T","I","F","I","C","A","T","E"," ","O","F"," ","B","I","R","T","H">>

PhraseCertifiedTranscript ==
    <<"C","E","R","T","I","F","I","E","D"," ","T","R","A","N","S","C","R","I","P","T"," ","O",
      "F"," ","B","I","R","T","H">>

PhraseCertificateOfLiveBirth ==
    <<"C","E","R","T","I","F","I","C","A","T","E"," ","O","F"," ","L","I","V","E"," ","B","I",
      "R","T","H">>

LabelCertificateOfBirth ==
    <<"C","e","r","t","i","f","i","c","a","t","e"," ","o","f"," ","B","i","r","t","h">>

LabelCertifiedTranscript ==
    <<"C","e","r","t","i","f","i","e","d"," ","B","i","r","t","h"," ","T","r","a","n","s","c",
      "r","i","p","t">>

LabelCertificateOfLiveBirth ==
    <<"C","e","r","t","i","f","i","c","a","t","e"," ","o","f"," ","L","i","v","e"," ","B","i",
      "r","t","h">>

UnknownDocumentType ==
    <<"U","n","k","n","o","w","n"," ","D","o","c","u","m","e","n","t"," ","T","y","p","e">>

NotFound ==
    <<"N","o","t"," ","F","o","u","n","d">>

SealDetected ==
    <<"S","e","a","l","/","S","i","g","n","a","t","u","r","e"," ","D","e","t","e","c","t","e",
      "d">>

SealNotDetected ==
    <<"S","e","a","l","/","S","i","g","n","a","t","u","r","e"," ","N","o","t"," ","D","e","t",
      "e","c","t","e","d">>

HighPixelationPrefix ==
    <<"H","i","g","h"," ","P","i","x","e","l","a","t","i","o","n"," ","D","e","t","e","c","t",
      "e","d"," ","(","P","o","s","s","i","b","l","e"," ","T","a","m","p","e","r","i","n","g",
      ")"," ","-"," ","S","c","o","r","e",":"," ">>

ModeratePixelationPrefix ==
    <<"M","o","d","e","r","a","t","e"," ","P","i","x","e","l","a","t","i","o","n"," ","-"," ",
      "S","c","o","r","e",":"," ">>

LowPixelationPrefix ==
    <<"L","o","w"," ","P","i","x","e","l","a","t","i","o","n"," ","(","L","i","k","e","l","y",
      " ","A","u","t","h","e","n","t","i","c",")"," ","-"," ","S","c","o","r","e",":"," ">>

DetectedWord ==
    <<"D","e","t","e","c","t","e","d">>

LowPixelationWord ==
    <<"L","o","w"," ","P","i","x","e","l","a","t","i","o","n">>

ModeratePixelationWord ==
    <<"M","o","d","e","r","a","t","e"," ","P","i","x","e","l","a","t","i","o","n">>

RecommendProceed ==
    <<"U+2705"," ","P","r","o","c","e","e","d"," ","-"," ","D","o","c","u","m","e","n","t"," ",
      "a","p","p","e","a","r","s"," ","v","a","l","i","d",".">>

RecommendHold ==
    <<"U+26A0","U+FE0F"," ","H","o","l","d"," ","f","o","r"," ","F","u","r","t","h","e","r"," ",
      "R","e","v","i","e","w"," ","-"," ","S","o","m","e"," ","i","n","c","o","n","s","i","s",
      "t","e","n","c","i","e","s"," ","d","e","t","e","c","t","e","d",".">>

RecommendHighFraudRisk ==
    <<"U+1F6A8"," ","H","i","g","h"," ","F","r","a","u","d"," ","R","i","s","k"," ","-"," ","D",
      "o"," ","n","o","t"," ","p","r","o","c","e","e","d"," ","w","i","t","h","o","u","t"," ",
      "a","d","d","i","t","i","o","n","a","l"," ","v","e","r","i","f","i","c","a","t","i","o",
      "n",".">>

SubheaderText ==
    <<"V","a","l","i","d","a","t","i","o","n"," ","R","e","p","o","r","t">>

\* The literal pieces of the st.markdown f-string, between its placeholders
MarkdownPiece0 ==
    <<"\n"," "," "," "," ","*","*","D","o","c","u","m","e","n","t"," ","T","y","p","e",":","*",
      "*"," ">>

MarkdownPiece1 ==
    <<" "," ","\n"," "," "," "," ","*","*","S","e","r","i","a","l"," ","N","u","m","b","e","r",
      ":","*","*"," ">>

MarkdownPiece2 ==
    <<" "," ","\n"," "," "," "," ","*","*","S","e","a","l"," ","&"," ","S","i","g","n","a","t",
      "u","r","e"," ","D","e","t","e","c","t","i","o","n",":","*","*"," ">>

MarkdownPiece3 ==
    <<" "," ","\n"," "," "," "," ","*","*","P","i","x","e","l","a","t","i","o","n"," ","&"," ",
      "T","a","m","p","e","r","i","n","g"," ","A","n","a","l","y","s","i","s",":","*","*"," ">>

MarkdownPiece4 ==
    <<" "," ","\n","\n"," "," "," "," ","*","*","F","i","n","a","l"," ","C","o","n","f","i","d",
      "e","n","c","e"," ","S","c","o","r","e",":","*","*"," ">>

MarkdownPiece5 ==
    <<"/","1","0"," "," ","\n"," "," "," "," ","*","*","R","e","c","o","m","m","e","n","d","a",
      "t","i","o","n",":","*","*"," ">>

MarkdownPiece6 ==
    <<" "," ","\n"," "," "," "," ">>

\* The literal pieces of the report_text f-string, between its placeholders
ReportPiece0 ==
    <<"\n"," "," "," "," ","B","i","r","t","h"," ","C","e","r","t","i","f","i","c","a","t","e",
      " ","V","a","l","i","d","a","t","i","o","n"," ","R","e","p","o","r","t","\n","\n"," "," ",
      " "," ","D","o","c","u","m","e","n","t"," ","T","y","p","e",":"," ">>

ReportPiece1 ==
    <<"\n"," "," "," "," ","S","e","r","i","a","l"," ","N","u","m","b","e","r",":"," ">>

ReportPiece2 ==
    <<"\n"," "," "," "," ","S","e","a","l"," ","&"," ","S","i","g","n","a","t","u","r","e"," ",
      "D","e","t","e","c","t","i","o","n",":"," ">>

ReportPiece3 ==
    <<"\n"," "," "," "," ","P","i","x","e","l","a","t","i","o","n"," ","&"," ","T","a","m","p",
      "e","r","i","n","g"," ","A","n","a","l","y","s","i","s",":"," ">>

ReportPiece4 ==
    <<"\n","\n"," "," "," "," ","F","i","n","a","l"," ","C","o","n","f","i","d","e","n","c","e",
      " ","S","c","o","r","e",":"," ">>

ReportPiece5 ==
    <<"/","1","0","\n"," "," "," "," ","R","e","c","o","m","m","e","n","d","a","t","i","o","n",
      ":"," ">>

ReportPiece6 ==
    <<"\n"," "," "," "," ">>

\* ------------------------------------------------------------------------
\* Text fragments from which the OCR outputs of the model are built
\* ------------------------------------------------------------------------
FragLowerBirth ==
    <<"c","e","r","t","i","f","i","c","a","t","e"," ","o","f"," ","b","i","r","t","h">>

FragLowerTranscript ==
    <<"c","e","r","t","i","f","i","e","d"," ","t","r","a","n","s","c","r","i","p","t"," ","o",
      "f"," ","b","i","r","t","h">>

FragMixedLiveBirth ==
    <<"C","e","r","t","i","f","i","c","a","t","e"," ","o","f"," ","L","i","v","e"," ","B","i",
      "r","t","h">>

FragSpace ==
    <<" ">>

FragUnderscore ==
    <<"_">>

FragLowerLetter ==
    <<"x">>

FragSeven ==
    <<"A","B","1","2","3","4","5">>

FragSix ==
    <<"A","1","B","2","C","3">>

FragAccented ==
    <<"U+00C9">>

\* ------------------------------------------------------------------------
\* Bounds of the model
\* ------------------------------------------------------------------------
\* Number of fragments concatenated into one OCR text
MaxParts == 3

\* Half-width of the window of sampled values around each threshold
Near == 2

\* laplacian_var is a float; the model measures it in 1/VarScale units
VarScale == 4

\* Largest whole-unit Laplacian variance sampled
MaxLaplacian == 250

\* ------------------------------------------------------------------------
\* Program constants
\* ------------------------------------------------------------------------
SerialMinLen == 7
SerialMaxLen == 12
EdgeThreshold == 100
MaxEdgeMean == 255
HighPixelationLimit == 50
ModeratePixelationLimit == 100
DocTypeWeight == 3
SerialWeight == 2
SealWeight == 3
LowPixelationWeight == 2
ModeratePixelationWeight == 1
ProceedThreshold == 7
HoldThreshold == 5

\* ------------------------------------------------------------------------
\* Python string operations
\* ------------------------------------------------------------------------
SeqRange(s) == {s[i] : i \in 1..Len(s)}

UpperSet == SeqRange(UpperLetters)
LowerSet == SeqRange(LowerLetters)
DigitSet == SeqRange(DigitChars)

IsUpper(c) == c \in UpperSet
IsLower(c) == c \in LowerSet
IsDigit(c) == c \in DigitSet

\* the uppercase letter of each lowercase letter
UpperOf ==
    [c \in LowerSet |->
        UpperLetters[CHOOSE i \in 1..Len(LowerLetters) : LowerLetters[i] = c]]

\* one character of str.upper()
UpperChar(c) == IF IsLower(c) THEN UpperOf[c] ELSE c

\* text.upper()
str_upper(s) == [i \in 1..Len(s) |-> UpperChar(s[i])]

\* sub in s
str_contains(sub, s) ==
    \E i \in 0..(Len(s) - Len(sub)) : SubSeq(s, i + 1, i + Len(sub)) = sub

RECURSIVE IntToStr(_)
\* str(n) for n >= 0, as an f-string placeholder renders an int
IntToStr(n) ==
    IF n < 10 THEN <<DigitChars[n + 1]>>
    ELSE IntToStr(n \div 10) \o <<DigitChars[(n % 10) + 1]>>

\* round(100 * q / VarScale), ties to even: the hundredths "{:.2f}" prints
Hundredths(q) ==
    LET num == 100 * q
        fl  == num \div VarScale
        rem == num % VarScale
    IN  IF 2 * rem > VarScale \/ (2 * rem = VarScale /\ fl % 2 = 1)
        THEN fl + 1 ELSE fl

\* f"{laplacian_var:.2f}" for laplacian_var = q / VarScale
format_2f(q) ==
    LET h == Hundredths(q)
    IN  IntToStr(h \div 100) \o <<".">>
        \o <<DigitChars[((h % 100) \div 10) + 1], DigitChars[(h % 10) + 1]>>

\* ------------------------------------------------------------------------
\* re.search(r'\b[A-Z0-9]{7,12}\b', text)
\* ------------------------------------------------------------------------
\* [A-Z0-9]
IsSerialChar(c) == IsUpper(c) \/ IsDigit(c)

\* the letters outside ASCII that the model's texts use: E with acute accent
NonAsciiLetters == {"U+00C9"}

\* \w of a str pattern: Unicode letters and digits, and the underscore
IsWordChar(c) ==
    IsUpper(c) \/ IsLower(c) \/ IsDigit(c) \/ c \in NonAsciiLetters \/ c = "_"

\* \b at offset p (between s[p] and s[p+1])
WordBoundary(s, p) ==
    LET before == p >= 1 /\ IsWordChar(s[p])
        after  == p < Len(s) /\ IsWordChar(s[p + 1])
    IN  before # after

\* the pattern without its closing \b
MatchLengths_NoTrailingBoundary(s, i) ==
    {n \in SerialMinLen..SerialMaxLen :
        /\ WordBoundary(s, i)
        /\ i + n <= Len(s)
        /\ \A k \in 1..n : IsSerialChar(s[i + k])}

\* the pattern with {7,10} for {7,12}
MatchLengths_MaxTen(s, i) ==
    {n \in SerialMinLen..(SerialMaxLen - 2) :
        /\ WordBoundary(s, i)
        /\ i + n <= Len(s)
        /\ \A k \in 1..n : IsSerialChar(s[i + k])
        /\ WordBoundary(s, i + n)}

\* lengths n for which the pattern matches s[i+1 .. i+n]
MatchLengths(s, i) ==
    {n \in SerialMinLen..SerialMaxLen :
        /\ WordBoundary(s, i)
        /\ i + n <= Len(s)
        /\ \A k \in 1..n : IsSerialChar(s[i + k])
        /\ WordBoundary(s, i + n)}

SetMax(S) == CHOOSE x \in S : \A y \in S : y <= x
SetMin(S) == CHOOSE x \in S : \A y \in S : x <= y

\* the match object: leftmost start, greedy length; <<>> models None
re_search(s) ==
    LET starts == {i \in 0..Len(s) : MatchLengths(s, i) # {}}
    IN  IF starts = {} THEN << >>
        ELSE LET i == SetMin(starts)
             IN  SubSeq(s, i + 1, i + SetMax(MatchLengths(s, i)))

\* ------------------------------------------------------------------------
\* The functions of src/app.py
\* ------------------------------------------------------------------------
extract_text(image) == image.ocr_text

\* the phrases tested in the order live birth, transcript, birth
detect_document_type_LiveBirthFirst(text) ==
    IF str_contains(PhraseCertificateOfLiveBirth, str_upper(text))
    THEN LabelCertificateOfLiveBirth
    ELSE IF str_contains(PhraseCertifiedTranscript, str_upper(text))
    THEN LabelCertifiedTranscript
    ELSE IF str_contains(PhraseCertificateOfBirth, str_upper(text))
    THEN LabelCertificateOfBirth
    ELSE UnknownDocumentType

detect_document_type(text) ==
    IF str_contains(PhraseCertificateOfBirth, str_upper(text))
    THEN LabelCertificateOfBirth
    ELSE IF str_contains(PhraseCertifiedTranscript, str_upper(text))
    THEN LabelCertifiedTranscript
    ELSE IF str_contains(PhraseCertificateOfLiveBirth, str_upper(text))
    THEN LabelCertificateOfLiveBirth
    ELSE UnknownDocumentType

check_serial_number(text) ==
    LET match == re_search(text)
    IN  IF match # << >> THEN match ELSE NotFound

detect_seals_and_signatures(image) ==
    IF image.edge_score > EdgeThreshold THEN SealDetected ELSE SealNotDetected

\* the first comparison written <= 50
pixelation_analysis_InclusiveHigh(image) ==
    LET laplacian_var == image.laplacian_var
    IN  IF laplacian_var <= HighPixelationLimit * VarScale
        THEN HighPixelationPrefix \o format_2f(laplacian_var)
        ELSE IF laplacian_var < ModeratePixelationLimit * VarScale
        THEN ModeratePixelationPrefix \o format_2f(laplacian_var)
        ELSE LowPixelationPrefix \o format_2f(laplacian_var)

pixelation_analysis(image) ==
    LET laplacian_var == image.laplacian_var
    IN  IF laplacian_var < HighPixelationLimit * VarScale
        THEN HighPixelationPrefix \o format_2f(laplacian_var)
        ELSE IF /\ HighPixelationLimit * VarScale <= laplacian_var
                /\ laplacian_var < ModeratePixelationLimit * VarScale
        THEN ModeratePixelationPrefix \o format_2f(laplacian_var)
        ELSE LowPixelationPrefix \o format_2f(laplacian_var)

\* the comparison written == for !=
DocTypePoints_Inverted(dt) == IF dt = UnknownDocumentType THEN DocTypeWeight ELSE 0

\* lines 103-104
DocTypePoints(dt) == IF dt # UnknownDocumentType THEN DocTypeWeight ELSE 0

\* lines 105-106
SerialPoints(sn) == IF sn # NotFound THEN SerialWeight ELSE 0

\* lines 107-108
SealPoints(seal) == IF str_contains(DetectedWord, seal) THEN SealWeight ELSE 0

\* lines 109-112
PixelationPoints(pix) ==
    IF str_contains(LowPixelationWord, pix) THEN LowPixelationWeight
    ELSE IF str_contains(ModeratePixelationWord, pix) THEN ModeratePixelationWeight
    ELSE 0

\* lines 102-112
ConfidenceScore(dt, sn, seal, pix) ==
    0 + DocTypePoints(dt) + SerialPoints(sn) + SealPoints(seal) + PixelationPoints(pix)

\* the first comparison written > 7
Recommendation_StrictProceed(score) ==
    IF score > ProceedThreshold THEN RecommendProceed
    ELSE IF HoldThreshold <= score /\ score < ProceedThreshold THEN RecommendHold
    ELSE RecommendHighFraudRisk

\* lines 114-119
Recommendation(score) ==
    IF score >= ProceedThreshold THEN RecommendProceed
    ELSE IF HoldThreshold <= score /\ score < ProceedThreshold THEN RecommendHold
    ELSE RecommendHighFraudRisk

\* the f-string handed to st.markdown
MarkdownBody(dt, sn, seal, pix, score, rec) ==
    MarkdownPiece0 \o dt \o MarkdownPiece1 \o sn \o MarkdownPiece2 \o seal
    \o MarkdownPiece3 \o pix \o MarkdownPiece4 \o IntToStr(score)
    \o MarkdownPiece5 \o rec \o MarkdownPiece6

\* the serial number and the seal status in each other's placeholder
ReportText_SwappedFields(dt, sn, seal, pix, score, rec) ==
    ReportPiece0 \o dt \o ReportPiece1 \o seal \o ReportPiece2 \o sn
    \o ReportPiece3 \o pix \o ReportPiece4 \o IntToStr(score)
    \o ReportPiece5 \o rec \o ReportPiece6

\* the f-string assigned to report_text
ReportText(dt, sn, seal, pix, score, rec) ==
    ReportPiece0 \o dt \o ReportPiece1 \o sn \o ReportPiece2 \o seal
    \o ReportPiece3 \o pix \o ReportPiece4 \o IntToStr(score)
    \o ReportPiece5 \o rec \o ReportPiece6

\* ------------------------------------------------------------------------
\* Inputs
\* ------------------------------------------------------------------------
Fragments ==
    {PhraseCertificateOfBirth, PhraseCertifiedTranscript, PhraseCertificateOfLiveBirth,
     FragLowerBirth, FragLowerTranscript, FragMixedLiveBirth,
     FragSpace, FragUnderscore, FragLowerLetter, FragAccented, FragSeven, FragSix}

RECURSIVE TextsOf(_)
\* the concatenations of exactly n fragments
TextsOf(n) ==
    IF n = 0 THEN {<< >>}
    ELSE {t \o f : t \in TextsOf(n - 1), f \in Fragments}

\* OCR outputs for the classification and serial-number functions
Texts == UNION {TextsOf(n) : n \in 0..MaxParts}

\* OCR outputs fed through the whole pipeline
PipelineTexts == TextsOf(0) \cup TextsOf(1)

Abs(x) == IF x < 0 THEN -x ELSE x

\* mean of a Canny edge map (pixels 0 or 255), sampled around the threshold
EdgeSamples ==
    {e \in 0..MaxEdgeMean :
        e <= Near \/ Abs(e - EdgeThreshold) <= Near \/ e >= MaxEdgeMean - Near}

\* Laplacian variances in 1/VarScale units, sampled around the thresholds
LaplacianSamples ==
    {q \in 0..(MaxLaplacian * VarScale) :
        \/ q <= Near
        \/ Abs(q - HighPixelationLimit * VarScale) <= Near
        \/ Abs(q - ModeratePixelationLimit * VarScale) <= Near
        \/ q >= MaxLaplacian * VarScale - Near}

\* what the pipeline reads off an uploaded image: the OCR engine's outcome
\* (text, or an exception), the Canny edge mean and the Laplacian variance
Images ==
    [present : {TRUE}, ocr_ok : {TRUE}, ocr_text : PipelineTexts,
     edge_score : EdgeSamples, laplacian_var : LaplacianSamples]
    \cup
    [present : {TRUE}, ocr_ok : {FALSE}, ocr_text : {<< >>},
     edge_score : EdgeSamples, laplacian_var : LaplacianSamples]

\* st.file_uploader returns None until a file is chosen
NoFile ==
    [present |-> FALSE, ocr_ok |-> FALSE, ocr_text |-> << >>,
     edge_score |-> 0, laplacian_var |-> 0]

\* a name not yet bound by the script
Unset == <<"unset">>

\* ------------------------------------------------------------------------
\* The script run
\* ------------------------------------------------------------------------
Init ==
    /\ pc = "idle"
    /\ uploaded_file = NoFile
    /\ extracted_text = Unset
    /\ document_type = Unset
    /\ serial_number = Unset
    /\ seal_status = Unset
    /\ pixelation_result = Unset
    /\ confidence_score = -1
    /\ recommendation = Unset
    /\ subheader = Unset
    /\ markdown_text = Unset
    /\ report_text = Unset

\* the user picks a file: Streamlit reruns the script with uploaded_file set
Upload(image) ==
    /\ pc = "idle"
    /\ pc' = "running"
    /\ uploaded_file' = image
    /\ UNCHANGED <<extracted_text, document_type, serial_number, seal_status,
                   pixelation_result, confidence_score, recommendation,
                   subheader, markdown_text, report_text>>

\* lines 90-144 when pytesseract.image_to_string returns
RunPipeline ==
    /\ pc = "running"
    /\ uploaded_file.present
    /\ uploaded_file.ocr_ok
    /\ LET text  == extract_text(uploaded_file)
           dt    == detect_document_type(text)
           sn    == check_serial_number(text)
           seal  == detect_seals_and_signatures(uploaded_file)
           pix   == pixelation_analysis(uploaded_file)
           score == ConfidenceScore(dt, sn, seal, pix)
           rec   == Recommendation(score)
       IN  /\ extracted_text' = text
           /\ document_type' = dt
           /\ serial_number' = sn
           /\ seal_status' = seal
           /\ pixelation_result' = pix
           /\ confidence_score' = score
           /\ recommendation' = rec
           /\ subheader' = SubheaderText
           /\ markdown_text' = MarkdownBody(dt, sn, seal, pix, score, rec)
           /\ report_text' = ReportText(dt, sn, seal, pix, score, rec)
    /\ pc' = "done"
    /\ UNCHANGED uploaded_file

\* line 96 when pytesseract.image_to_string raises: extract_text has no
\* handler and neither has the script, so the run ends at line 59
RunPipelineOcrError ==
    /\ pc = "running"
    /\ uploaded_file.present
    /\ ~uploaded_file.ocr_ok
    /\ pc' = "aborted"
    /\ UNCHANGED <<uploaded_file, extracted_text, document_type, serial_number,
                   seal_status, pixelation_result, confidence_score,
                   recommendation, subheader, markdown_text, report_text>>

\* the user removes the file: the script reruns with uploaded_file None and
\* binds none of the names
ClearUpload ==
    /\ pc \in {"done", "aborted"}
    /\ pc' = "idle"
    /\ uploaded_file' = NoFile
    /\ extracted_text' = Unset
    /\ document_type' = Unset
    /\ serial_number' = Unset
    /\ seal_status' = Unset
    /\ pixelation_result' = Unset
    /\ confidence_score' = -1
    /\ recommendation' = Unset
    /\ subheader' = Unset
    /\ markdown_text' = Unset
    /\ report_text' = Unset

Next ==
    \/ \E image \in Images : Upload(image)
    \/ RunPipeline
    \/ RunPipelineOcrError
    \/ ClearUpload

Spec == Init /\ [][Next]_vars

\* ------------------------------------------------------------------------
\* The text functions applied to every OCR output of Texts
\* ------------------------------------------------------------------------
InitText ==
    /\ pc = "text"
    /\ uploaded_file = NoFile
    /\ extracted_text \in Texts
    /\ document_type = Unset
    /\ serial_number = Unset
    /\ seal_status = Unset
    /\ pixelation_result = Unset
    /\ confidence_score = -1
    /\ recommendation = Unset
    /\ subheader = Unset
    /\ markdown_text = Unset
    /\ report_text = Unset

\* line 97
DetectDocumentType ==
    /\ pc = "text"
    /\ document_type' = detect_document_type(extracted_text)
    /\ pc' = "typed"
    /\ UNCHANGED <<uploaded_file, extracted_text, serial_number, seal_status,
                   pixelation_result, confidence_score, recommendation,
                   subheader, markdown_text, report_text>>

\* line 98
CheckSerialNumber ==
    /\ pc = "typed"
    /\ serial_number' = check_serial_number(extracted_text)
    /\ pc' = "searched"
    /\ UNCHANGED <<uploaded_file, extracted_text, document_type, seal_status,
                   pixelation_result, confidence_score, recommendation,
                   subheader, markdown_text, report_text>>

NextText ==
    \/ DetectDocumentType
    \/ CheckSerialNumber

SpecText == InitText /\ [][NextText]_vars

\* ------------------------------------------------------------------------
\* Helpers of the properties
\* ------------------------------------------------------------------------
HasPrefix(p, s) == Len(p) <= Len(s) /\ SubSeq(s, 1, Len(p)) = p

\* a and b are the same letter up to case, or the same character
SameIgnoringCase(a, b) ==
    \/ a = b
    \/ \E j \in 1..Len(LowerLetters) :
          {a, b} = {LowerLetters[j], UpperLetters[j]}

\* phrase occurs in text, compared character by character ignoring case
OccursIgnoringCase(phrase, text) ==
    \E i \in 0..(Len(text) - Len(phrase)) :
        \A k \in 1..Len(phrase) : SameIgnoringCase(text[i + k], phrase[k])

\* str.isalnum() of one character
IsAlphanumeric(c) == IsUpper(c) \/ IsLower(c) \/ IsDigit(c) \/ c \in NonAsciiLetters

\* text[i+1 .. i+n] is a run of 7-12 uppercase letters/digits (A-Z, 0-9) with no
\* character of the class Adjacent(_) next to it on either side
RunAt(text, i, n, Adjacent(_)) ==
    /\ n \in 7..12
    /\ i + n <= Len(text)
    /\ \A k \in 1..n : IsUpper(text[i + k]) \/ IsDigit(text[i + k])
    /\ i = 0 \/ ~Adjacent(text[i])
    /\ i + n = Len(text) \/ ~Adjacent(text[i + n + 1])

Runs(text, Adjacent(_)) ==
    {r \in (0..Len(text)) \X (7..12) : RunAt(text, r[1], r[2], Adjacent)}

\* the leftmost run is returned, and not-found exactly when there is none
SerialIsLeftmostRun(text, serial, Adjacent(_)) ==
    LET runs == Runs(text, Adjacent)
    IN  IF runs = {} THEN serial = NotFound
        ELSE /\ serial # NotFound
             /\ Len(serial) \in 7..12
             /\ \A k \in 1..Len(serial) : IsUpper(serial[k]) \/ IsDigit(serial[k])
             /\ \E r \in runs :
                   /\ \A q \in runs : r[1] <= q[1]
                   /\ serial = SubSeq(text, r[1] + 1, r[1] + r[2])

\* ------------------------------------------------------------------------
\* Properties
\* ------------------------------------------------------------------------
\* the rule table of the four signals: +3 type known, +2 serial found,
\* +3 seal verdict Detected, +2 / +1 / +0 Low / Moderate / High pixelation
RuleTableSum(dt, sn, seal, pix) ==
    (IF dt # UnknownDocumentType THEN 3 ELSE 0)
    + (IF sn # NotFound THEN 2 ELSE 0)
    + (IF seal = SealDetected THEN 3 ELSE 0)
    + (IF HasPrefix(LowPixelationWord, pix) THEN 2
       ELSE IF HasPrefix(ModeratePixelationWord, pix) THEN 1 ELSE 0)

\* C1: for every combination of the four signals the confidence score of a
\* finished run equals the sum of the rule table over those signals.
C1_ScoreIsRuleTableSum ==
    pc = "done" =>
        confidence_score
            = RuleTableSum(document_type, serial_number, seal_status, pixelation_result)

\* C2: a Not-Detected seal verdict contributes 0: no phrase, no serial, seal
\* Not-Detected and High pixelation give score 0 and High Fraud Risk.
C2_NotDetectedSealAddsNothing ==
    (/\ pc = "done"
     /\ document_type = UnknownDocumentType
     /\ serial_number = NotFound
     /\ seal_status = SealNotDetected
     /\ uploaded_file.laplacian_var < 50 * VarScale)
    => (confidence_score = 0 /\ recommendation = RecommendHighFraudRisk)

\* C3: every score of a finished run gets exactly one recommendation:
\* Proceed iff score >= 7, Hold iff 5 <= score < 7, High Fraud Risk iff
\* score < 5.
C3_RecommendationByThreshold ==
    pc = "done" =>
        /\ recommendation \in {RecommendProceed, RecommendHold, RecommendHighFraudRisk}
        /\ recommendation = RecommendProceed <=> confidence_score >= 7
        /\ recommendation = RecommendHold
              <=> (5 <= confidence_score /\ confidence_score < 7)
        /\ recommendation = RecommendHighFraudRisk <=> confidence_score < 5

\* a finished run on the boundary score 5, held for review
C3_Witness ==
    /\ pc = "done"
    /\ confidence_score = 5
    /\ recommendation = RecommendHold

\* C4: a failing OCR call never ends the run: the text is empty and the run
\* goes on to the report.
C4_OcrFailureGivesEmptyText ==
    (pc \in {"done", "aborted"} /\ ~uploaded_file.ocr_ok)
    => (pc = "done" /\ extracted_text = << >> /\ report_text # Unset)

\* C5: the label is the one of the first phrase, in the order CERTIFICATE OF
\* BIRTH, CERTIFIED TRANSCRIPT OF BIRTH, CERTIFICATE OF LIVE BIRTH, that
\* occurs in the text ignoring case, and Unknown when none occurs.
C5_LabelByPriority ==
    pc \in {"typed", "searched"} =>
        /\ document_type \in {LabelCertificateOfBirth, LabelCertifiedTranscript,
                              LabelCertificateOfLiveBirth, UnknownDocumentType}
        /\ document_type =
              IF OccursIgnoringCase(PhraseCertificateOfBirth, extracted_text)
              THEN LabelCertificateOfBirth
              ELSE IF OccursIgnoringCase(PhraseCertifiedTranscript, extracted_text)
              THEN LabelCertifiedTranscript
              ELSE IF OccursIgnoringCase(PhraseCertificateOfLiveBirth, extracted_text)
              THEN LabelCertificateOfLiveBirth
              ELSE UnknownDocumentType

\* a text with the lowest-priority phrase first and the highest-priority
\* phrase after it, labelled by the latter
C5_Witness ==
    /\ pc = "typed"
    /\ extracted_text = PhraseCertificateOfLiveBirth \o FragSpace \o FragLowerBirth
    /\ document_type = LabelCertificateOfBirth

\* C6 as claimed: the serial is the leftmost run of 7-12 uppercase
\* letters/digits not adjacent to another alphanumeric character, and
\* not-found exactly when the text has no such run.
C6_LeftmostRunBetweenNonAlphanumerics ==
    pc = "searched" =>
        SerialIsLeftmostRun(extracted_text, serial_number, IsAlphanumeric)

IsAlphanumericOrUnderscore(c) == IsAlphanumeric(c) \/ c = "_"

\* C6 amended: the serial is the leftmost run of 7-12 uppercase
\* letters/digits not adjacent to another word character (a letter, a digit
\* or an underscore), and not-found exactly when the text has no such run.
C6_LeftmostRunBetweenNonWordChars ==
    pc = "searched" =>
        SerialIsLeftmostRun(extracted_text, serial_number, IsAlphanumericOrUnderscore)

\* a run of 12 uppercase letters/digits that an underscore disqualifies
C6_Witness ==
    /\ pc = "searched"
    /\ extracted_text = FragSix \o FragSix \o FragUnderscore
    /\ serial_number = NotFound

\* the points the scorer added for pixelation
PixelationShare ==
    confidence_score - DocTypePoints(document_type) - SerialPoints(serial_number)
        - SealPoints(seal_status)

HighPixelationWord == SubSeq(HighPixelationPrefix, 1, 15)

\* C7: a variance v gives High Pixelation and 0 points when v < 50, Moderate
\* Pixelation and 1 point when 50 <= v < 100, Low Pixelation and 2 points
\* when v >= 100.
C7_VerdictAndPointsByVariance ==
    pc = "done" =>
        LET v == uploaded_file.laplacian_var
        IN  /\ v < 50 * VarScale =>
                 /\ HasPrefix(HighPixelationWord, pixelation_result)
                 /\ PixelationShare = 0
            /\ (50 * VarScale <= v /\ v < 100 * VarScale) =>
                 /\ HasPrefix(ModeratePixelationWord, pixelation_result)
                 /\ PixelationShare = 1
            /\ v >= 100 * VarScale =>
                 /\ HasPrefix(LowPixelationWord, pixelation_result)
                 /\ PixelationShare = 2

\* a finished run on a variance of exactly 50
C7_Witness ==
    /\ pc = "done"
    /\ uploaded_file.laplacian_var = 50 * VarScale
    /\ HasPrefix(ModeratePixelationWord, pixelation_result)
    /\ PixelationShare = 1

\* the six field labels, in the order the claim gives them
C8_Labels ==
    <<
      <<"D","o","c","u","m","e","n","t"," ","T","y","p","e">>,
      <<"S","e","r","i","a","l"," ","N","u","m","b","e","r">>,
      <<"S","e","a","l"," ","&"," ","S","i","g","n","a","t","u","r","e"," ","D","e","t","e","c",
        "t","i","o","n">>,
      <<"P","i","x","e","l","a","t","i","o","n"," ","&"," ","T","a","m","p","e","r","i","n","g",
        " ","A","n","a","l","y","s","i","s">>,
      <<"F","i","n","a","l"," ","C","o","n","f","i","d","e","n","c","e"," ","S","c","o","r",
        "e">>,
      <<"R","e","c","o","m","m","e","n","d","a","t","i","o","n">>
    >>

\* the title line that only the downloadable text carries
C8_Title ==
    <<"B","i","r","t","h"," ","C","e","r","t","i","f","i","c","a","t","e"," ","V","a","l","i",
      "d","a","t","i","o","n"," ","R","e","p","o","r","t">>

RECURSIVE SplitLines(_)
\* s.split("\n")
SplitLines(s) ==
    LET breaks == {i \in 1..Len(s) : s[i] = "\n"}
    IN  IF breaks = {} THEN <<s>>
        ELSE LET i == SetMin(breaks)
             IN  <<SubSeq(s, 1, i - 1)>> \o SplitLines(SubSeq(s, i + 1, Len(s)))

\* the line without leading and trailing spaces
Strip(line) ==
    LET inked == {i \in 1..Len(line) : line[i] # " "}
    IN  IF inked = {} THEN << >> ELSE SubSeq(line, SetMin(inked), SetMax(inked))

NotAsterisk(c) == c # "*"
NotEmpty(line) == line # << >>

\* the non-blank lines of a rendering, without bold markers and indentation
FieldLines(s) ==
    LET lines == SplitLines(s)
    IN  SelectSeq([i \in 1..Len(lines) |-> Strip(SelectSeq(lines[i], NotAsterisk))],
                  NotEmpty)

RECURSIVE DigitsToInt(_)
\* int(ds) for a non-empty sequence of digits
DigitsToInt(ds) ==
    LET last == CHOOSE v \in 0..9 : DigitChars[v + 1] = ds[Len(ds)]
    IN  IF Len(ds) = 1 THEN last
        ELSE 10 * DigitsToInt(SubSeq(ds, 1, Len(ds) - 1)) + last

\* lines are the six labelled fields, in order, with the computed values
CarriesTheSixFields(lines) ==
    /\ Len(lines) = 6
    /\ lines[1] = C8_Labels[1] \o <<":", " ">> \o document_type
    /\ lines[2] = C8_Labels[2] \o <<":", " ">> \o serial_number
    /\ lines[3] = C8_Labels[3] \o <<":", " ">> \o seal_status
    /\ lines[4] = C8_Labels[4] \o <<":", " ">> \o pixelation_result
    /\ lines[6] = C8_Labels[6] \o <<":", " ">> \o recommendation
    /\ LET head == C8_Labels[5] \o <<":", " ">>
           n    == Len(lines[5])
           ds   == SubSeq(lines[5], Len(head) + 1, n - 3)
       IN  /\ HasPrefix(head, lines[5])
           /\ n >= Len(head) + 4
           /\ SubSeq(lines[5], n - 2, n) = <<"/", "1", "0">>
           /\ \A k \in 1..Len(ds) : IsDigit(ds[k])
           /\ DigitsToInt(ds) = confidence_score

C9_EmptyTextNeverProceeds ==
    (pc = "done" /\ extracted_text = << >>) =>
        /\ document_type = UnknownDocumentType
        /\ serial_number = NotFound
        /\ confidence_score <= 5
        /\ recommendation # RecommendProceed

\* an empty text with the best seal and pixelation verdicts
C9_Witness ==
    /\ pc = "done"
    /\ extracted_text = << >>
    /\ seal_status = SealDetected
    /\ HasPrefix(LowPixelationWord, pixelation_result)
    /\ confidence_score = 5

\* one of the three phrases stands in the text in uppercase, at the start
\* of the text or after a non-word character
UppercasePhraseAtWordStart(text) ==
    \E phrase \in {PhraseCertificateOfBirth, PhraseCertifiedTranscript,
                   PhraseCertificateOfLiveBirth} :
        \E i \in 0..(Len(text) - Len(phrase)) :
            /\ SubSeq(text, i + 1, i + Len(phrase)) = phrase
            /\ i = 0 \/ ~IsAlphanumericOrUnderscore(text[i])

\* C10: a text with an uppercase phrase at a word start always has a serial
\* and a known type, so it earns the +3 and the +2.
C10_PhraseImpliesSerial ==
    (pc = "searched" /\ UppercasePhraseAtWordStart(extracted_text)) =>
        /\ serial_number # NotFound
        /\ document_type # UnknownDocumentType
        /\ DocTypePoints(document_type) + SerialPoints(serial_number) = 5

\* the first word of the phrase returned as the serial
C10_Witness ==
    /\ pc = "searched"
    /\ extracted_text = FragLowerLetter \o FragSpace \o PhraseCertifiedTranscript
    /\ serial_number = SubSeq(PhraseCertifiedTranscript, 1, 9)

====
